---- MODULE Spec2Model ----
(***************************************************************************)
(* State-machine model of MeshLineGeometry (src/src/MeshLineGeometry.ts):  *)
(* the tessellation of a polyline into ribbon attribute arrays (setPoints  *)
(* and #process) and the FIFO update (advance); and of the picker          *)
(* MeshLineRaycast (src/src/THREE.MeshLine.ts) on the arrays they leave.   *)
(*                                                                         *)
(* Scalars.  Point coordinates and index values are integers.  Widths,     *)
(* uv's and counters are rationals j/d; a rational is the pair <<n, d>> in *)
(* lowest terms (<<0, 0>> is NaN, <<1, 0>> is Infinity), and its rounding  *)
(* to 32 bits, which is one-to-one on the rationals that occur, is left    *)
(* out.  An absent value (JavaScript undefined) is an index outside a      *)
(* sequence, or the empty tuple Missing where an array of points has a     *)
(* hole.  A coordinate that is NaN or Infinity is one of two integers far  *)
(* from every coordinate, NotANumber and PlusInfinity.                     *)
(*                                                                         *)
(* Errors.  The checks marked @prod-prune are part of the code, as they    *)
(* are in src/ and in dist/; a call that throws leaves in err the message  *)
(* of its error and in the other variables what it had assigned before.    *)
(*                                                                         *)
(* Evaluation.  \E x \in {e} : ... names the value of e once, where LET    *)
(* would evaluate e again at every use.                                    *)
(***************************************************************************)
EXTENDS Integers, Sequences, FiniteSets, TLC

\* ------------------------------------------------------------------ bounds
\* Longest point sequence handed to setPoints.
MaxPoints == 3
\* Most advance calls between two successful setPoints calls.
MaxAdvances == 2
\* How far the point counts of the long lines lie from 32768, and how many of
\* their last segments are looked at.
LongSpan == 8

\* ------------------------------------------------------- program constants
itemSize == 6

\* ------------------------------------------------------------------ inputs
\* The points of the polylines: Q(1), Q(2), ... are pairwise different in
\* every coordinate.
Q(i) == <<i, 2 * i, 3 * i>>
Origin == <<0, 0, 0>>
Missing == <<>>

\* The coordinates that are not finite numbers: NaN and Infinity.
NotANumber == -2000000001
PlusInfinity == 2000000001
IsFinite(x) == x # NotANumber /\ x # PlusInfinity

\* The polylines of n points handed to setPoints: an open one, a closed one
\* (last point = first point) and one whose last point differs from the
\* first in the z coordinate alone.
Open(n) == [j \in 1..n |-> Q(j)]
Closed(n) == [j \in 1..n |-> IF j = n THEN Q(1) ELSE Q(j)]
NearClosed(n) == [j \in 1..n |-> IF j = n THEN <<Q(1)[1], Q(1)[2], Q(n)[3]>> ELSE Q(j)]
Polylines(n) ==
    IF n = 0 THEN {<<>>} ELSE {Open(n), Closed(n), NearClosed(n)}

RECURSIVE Flatten(_)
Flatten(s) ==
    IF s = <<>> THEN <<>>
    ELSE <<s[1][1], s[1][2], s[1][3]>> \o Flatten(Tail(s))

\* Arrays of Vector3, and two with a hole in them.
VecInputs ==
    UNION {{[kind |-> "vec", data |-> s] : s \in Polylines(n)} : n \in 1..MaxPoints}
    \cup {[kind |-> "vec", data |-> <<Missing>>],
          [kind |-> "vec", data |-> <<Q(1), Missing>>]}
\* Flat arrays of scalars (number[] or Float32Array), and one that lacks the
\* last coordinate of its last point.
FlatInputs ==
    UNION {{[kind |-> "flat", data |-> Flatten(s)] : s \in Polylines(n)} :
           n \in 0..MaxPoints}
    \cup {[kind |-> "flat", data |-> SubSeq(Flatten(Open(2)), 1, 5)]}
\* Anything that is neither an Array nor a Float32Array.
OtherInputs == {[kind |-> "other", data |-> <<>>]}
Inputs == VecInputs \cup FlatInputs \cup OtherInputs

\* Polylines with a coordinate that is not finite: NaN in an inner point, and
\* Infinity in the first point, which is the last point too.
NaNInside(n) == [j \in 1..n |-> IF j = 2 THEN <<Q(2)[1], NotANumber, Q(2)[3]>> ELSE Q(j)]
InfiniteLoop(n) ==
    [j \in 1..n |-> IF j \in {1, n} THEN <<PlusInfinity, Q(1)[2], Q(1)[3]>> ELSE Q(j)]
NaNLoop(n) ==
    [j \in 1..n |-> IF j \in {1, n} THEN <<NotANumber, Q(1)[2], Q(1)[3]>> ELSE Q(j)]
NonFinitePolylines == {NaNInside(MaxPoints), InfiniteLoop(MaxPoints), NaNLoop(MaxPoints)}
NonFiniteInputs ==
    {[kind |-> "vec", data |-> s] : s \in NonFinitePolylines}
    \cup {[kind |-> "flat", data |-> Flatten(s)] : s \in NonFinitePolylines}

\* The points of an array handed to setPoints, one triple each.
PointsOf(input) ==
    IF input.kind = "vec" THEN input.data
    ELSE [j \in 1..(Len(input.data) \div 3) |->
             <<input.data[3 * j - 2], input.data[3 * j - 1], input.data[3 * j]>>]

\* The width callbacks of the README: p => 2 and p => 1 - p.
WidthFns == {"const2", "taper"}
NoCallback == "null"

\* The points handed to advance: one that is on no polyline, and Q(1).
AdvancePoints == {Q(MaxPoints + 1), Q(1)}

\* The rays handed to MeshLineRaycast look down the z axis (direction
\* <<0, 0, -1>>) from a height above every point: one through Q(1), one that
\* passes by the segment from Q(1) to Q(2), one through Q(3), and one that
\* misses the bounding sphere of every polyline.
RayHeight == 100
RayOrigins ==
    {<<1, 2, RayHeight>>, <<2, 2, RayHeight>>, <<3, 6, RayHeight>>, <<0, 0, RayHeight>>}
\* raycaster.near and raycaster.far: everything in front of the ray, or what
\* lies no farther than a point of height 5.
Ranges == {<<0, 10 * RayHeight>>, <<0, RayHeight - 5>>}
\* raycaster.params.Line: undefined, or {threshold: 3}.
LineParams == {<<>>, <<3>>}
\* mesh.material.lineWidth
LineWidths == {1, 4}

\* ------------------------------------------------------------- arithmetic
RECURSIVE Gcd(_, _)
Gcd(a, b) == IF b = 0 THEN a ELSE Gcd(b, a % b)

\* The JavaScript quotient n / d of two non-negative integers.
Div(n, d) ==
    IF d = 0 THEN (IF n = 0 THEN <<0, 0>> ELSE <<1, 0>>)
    ELSE LET g == Gcd(n, d) IN <<n \div g, d \div g>>

\* A width callback applied to the rational p.
Apply(f, p) ==
    IF f = "const2" THEN <<2, 1>>
    ELSE IF p[2] = 0 THEN <<0, 0>>
    ELSE Div(p[2] - p[1], p[2])

Abs(x) == IF x < 0 THEN -x ELSE x

\* The rational n / d, d > 0, in lowest terms.
Rat(n, d) == LET g == Gcd(Abs(n), d) IN <<n \div g, d \div g>>

\* a > b on numbers that may be NaN (<<0, 0>>) or Infinity (<<1, 0>>).
Greater(a, b) ==
    IF a = <<0, 0>> \/ b = <<0, 0>> THEN FALSE
    ELSE IF b[2] = 0 THEN FALSE
    ELSE IF a[2] = 0 THEN TRUE
    ELSE a[1] * b[2] > b[1] * a[2]

\* Storing the integer x in a Float32Array: exact up to 2^24, and beyond it
\* (up to 2^25) rounded to the nearest even integer, ties to the multiple of 4.
Fround(x) ==
    IF ~IsFinite(x) THEN x
    ELSE IF Abs(x) <= 16777216 \/ x % 2 = 0 THEN x
    ELSE IF (x + 1) % 4 = 0 THEN x + 1 ELSE x - 1

\* Storing the integer x in a Uint16Array.
ToUint16(x) == x % 65536

Float32Array(a) == [i \in 1..Len(a) |-> Fround(a[i])]
Uint16Array(a) == [i \in 1..Len(a) |-> ToUint16(a[i])]

\* ------------------------------------------------------------------ state
VARIABLES
    points,          \* #points: the sequence last stored by setPoints
    widthCallback,   \* the public widthCallback property
    positions,       \* #positions
    previous,        \* #previous
    next,            \* #next
    side,            \* #side
    width,           \* #width
    indices_array,   \* #indices_array
    uvs,             \* #uvs
    counters,        \* #counters
    attributes,      \* #attributes: <<>> (null) or <<the arrays of the eight
                     \* attributes, which allocation they are (store) and
                     \* the attributes marked needsUpdate since it>>
    boundingBox,     \* <<>> (null) or <<[min, max]>>
    boundingSphere,  \* <<>> (null) or <<[center2, radiusSq4]>>
    advances,        \* advance calls since the last successful setPoints
    fed,             \* the points of the last successful setPoints call and,
                     \* after them, the points of the advance calls since
    op,              \* the last call and its arguments
    err,             \* the message of the error the last call threw, or "none"
    callLog,         \* the arguments widthCallback received during the last call
    raycaster,       \* <<>>, or <<the ray and the parameters of the last call,
                     \* when it was a MeshLineRaycast>>
    intersects,      \* the intersections the last call pushed
    longLine         \* <<>>, or <<one segment of a line of tens of thousands of
                     \* points: the indices #process pushes for it and the
                     \* ones the index attribute stores>>

arrays == <<positions, previous, next, side, width, indices_array, uvs, counters>>
vars == <<points, widthCallback, arrays, attributes, boundingBox, boundingSphere,
          advances, fed, op, err, callLog, raycaster, intersects, longLine>>
\* The arguments and the results of a MeshLineRaycast call.
pick == <<raycaster, intersects>>

Null == <<>>
NoError == "none"
NoPoint == Origin

\* ------------------------------------------------------ #process helpers
\* The array element a[i] (0-based) as <<value>>, or <<>> when it is undefined.
JsAt(a, i) == IF i >= 0 /\ i < Len(a) THEN <<a[i + 1]>> ELSE <<>>

\* a === b on array elements: undefined equals undefined, a number equals
\* itself unless it is NaN.
StrictEquals(a, b) == a = b /\ a # <<NotANumber>>

\* pointsAreEqual without the comparison of the z coordinates.
pointsAreEqualXY(pos, pointIndexA, pointIndexB) ==
    LET actualIndexA == pointIndexA * itemSize
        actualIndexB == pointIndexB * itemSize
    IN  /\ StrictEquals(JsAt(pos, actualIndexA + 0), JsAt(pos, actualIndexB + 0))
        /\ StrictEquals(JsAt(pos, actualIndexA + 1), JsAt(pos, actualIndexB + 1))

pointsAreEqual(pos, pointIndexA, pointIndexB) ==
    LET actualIndexA == pointIndexA * itemSize
        actualIndexB == pointIndexB * itemSize
    IN  /\ StrictEquals(JsAt(pos, actualIndexA + 0), JsAt(pos, actualIndexB + 0))
        /\ StrictEquals(JsAt(pos, actualIndexA + 1), JsAt(pos, actualIndexB + 1))
        /\ StrictEquals(JsAt(pos, actualIndexA + 2), JsAt(pos, actualIndexB + 2))

\* Whether #clonePoint(pointIndex) throws 'point missing'.
clonePointThrows(pos, pointIndex) ==
    LET actualIndex == pointIndex * itemSize
    IN  \E k \in 0..2 : JsAt(pos, actualIndex + k) = <<>>

clonePoint(pos, pointIndex) ==
    LET actualIndex == pointIndex * itemSize
    IN  <<pos[actualIndex + 1], pos[actualIndex + 2], pos[actualIndex + 3]>>

Push2(a, point) == a \o point \o point

\* SidePair with the same flag on both rails.
SidePairSame == <<1, 1>>

\* The two side flags pushed for a point.
SidePair == <<1, -1>>

\* WidthOf with a default width of 0.
WidthOfZero(wc, p) == IF wc # NoCallback THEN Apply(wc, p) ELSE <<0, 1>>

\* The width pushed for the point at the normalized position p.
WidthOf(wc, p) == IF wc # NoCallback THEN Apply(wc, p) ELSE <<1, 1>>

\* HasSegment with the bound off by one: the last point starts a segment too.
HasSegmentOffByOne(j, pointCount) == j <= pointCount - 1

\* Whether point j starts a segment.
HasSegment(j, pointCount) == j < pointCount - 1

\* QuadIndices in strip order: the second triangle is n+1, n+2, n+3.
QuadIndicesStrip(n) == <<n, n + 1, n + 2>> \o <<n + 1, n + 2, n + 3>>

\* The two triangles of the quad whose first vertex is n.
QuadIndices(n) == <<n, n + 1, n + 2>> \o <<n + 2, n + 1, n + 3>>

\* One pass of the loop of #process for point j, on the arrays in acc; a
\* 'point missing' thrown by #clonePoint ends the loop with the arrays as
\* they are at the throw.
ProcessStep(pos, wc, pointCount, j, acc) ==
    LET p  == Div(j, pointCount - 1)
        w  == WidthOf(wc, p)
        a1 == [acc EXCEPT
                 !.side  = @ \o SidePair,
                 !.log   = IF wc # NoCallback THEN Append(@, p) ELSE @,
                 !.width = @ \o <<w, w>>,
                 !.uvs   = @ \o <<p, <<0, 1>>, p, <<1, 1>>>>]
        n  == j * 2
        a2 == IF HasSegment(j, pointCount)
              THEN IF clonePointThrows(pos, j)
                   THEN [a1 EXCEPT !.thrown = TRUE]
                   ELSE [a1 EXCEPT
                           !.previous = Push2(@, clonePoint(pos, j)),
                           !.indices_array = @ \o QuadIndices(n)]
              ELSE a1
    IN  IF a2.thrown \/ j = 0 THEN a2
        ELSE IF clonePointThrows(pos, j) THEN [a2 EXCEPT !.thrown = TRUE]
        ELSE [a2 EXCEPT !.next = Push2(@, clonePoint(pos, j))]

RECURSIVE ProcessLoop(_, _, _, _, _)
ProcessLoop(pos, wc, pointCount, j, acc) ==
    IF j >= pointCount \/ acc.thrown THEN acc
    ELSE ProcessLoop(pos, wc, pointCount, j + 1,
                     ProcessStep(pos, wc, pointCount, j, acc))

\* The arrays #process builds from #positions and the width callback wc, up
\* to where it assigns the attributes; thrown when #clonePoint threw.
ProcessArrays(pos, wc) ==
    LET pointCount == Len(pos) \div itemSize
        empty == [thrown |-> FALSE, previous |-> <<>>, next |-> <<>>, side |-> <<>>,
                  width |-> <<>>, indices_array |-> <<>>, uvs |-> <<>>, log |-> <<>>]
        first == IF pointsAreEqual(pos, 0, pointCount - 1) THEN pointCount - 2 ELSE 0
        last  == IF pointsAreEqual(pos, pointCount - 1, 0) THEN 1 ELSE pointCount - 1
    IN  IF clonePointThrows(pos, first) THEN [empty EXCEPT !.thrown = TRUE]
        ELSE LET a0 == [empty EXCEPT !.previous = Push2(@, clonePoint(pos, first))]
                 a1 == ProcessLoop(pos, wc, pointCount, 0, a0)
             IN  IF a1.thrown THEN a1
                 ELSE IF clonePointThrows(pos, last) THEN [a1 EXCEPT !.thrown = TRUE]
                 ELSE [a1 EXCEPT !.next = Push2(@, clonePoint(pos, last))]

\* ---------------------------------------------------- setPoints helpers
isVector3Array(array) ==
    array.kind = "vec" /\ Len(array.data) # 0 /\ array.data[1] # Missing

\* Whether the element array[i] (0-based) is null or undefined.
IsNullish(array, i) ==
    \/ JsAt(array.data, i) = <<>>
    \/ array.kind = "vec" /\ array.data[i + 1] = Missing

\* CounterOf with the last index of the array as the divisor.
CounterOfLast(j, length) == Div(j, length - 1)

\* The counter c of lines 88 and 96, for the loop index j over an array of
\* the given length.
CounterOf(j, length) == Div(j, length)

\* The loop of setPoints over an array of Vector3: #positions and #counters
\* as they are when the loop ends or throws 'point missing'.
RECURSIVE FillVector3(_, _, _)
FillVector3(array, j, acc) ==
    IF j >= Len(array.data) \/ acc.thrown THEN acc
    ELSE IF IsNullish(array, j) THEN [acc EXCEPT !.thrown = TRUE]
    ELSE LET p == array.data[j + 1]
             c == CounterOf(j, Len(array.data))
         IN  FillVector3(array, j + 1,
                 [acc EXCEPT !.positions = Push2(@, p),
                             !.counters  = @ \o <<c, c>>])

\* FillFlat whose counter divides the loop index by the number of points.
RECURSIVE FillFlatByPointCount(_, _, _)
FillFlatByPointCount(array, j, acc) ==
    IF j >= Len(array.data) \/ acc.thrown THEN acc
    ELSE IF \E k \in 0..2 : IsNullish(array, j + k) THEN [acc EXCEPT !.thrown = TRUE]
    ELSE LET p == <<array.data[j + 1], array.data[j + 2], array.data[j + 3]>>
             c == Div(j, Len(array.data) \div 3)
         IN  FillFlatByPointCount(array, j + 3,
                 [acc EXCEPT !.positions = Push2(@, p),
                             !.counters  = @ \o <<c, c>>])

\* The loop of setPoints over a flat array, three scalars at a time.
RECURSIVE FillFlat(_, _, _)
FillFlat(array, j, acc) ==
    IF j >= Len(array.data) \/ acc.thrown THEN acc
    ELSE IF \E k \in 0..2 : IsNullish(array, j + k) THEN [acc EXCEPT !.thrown = TRUE]
    ELSE LET p == <<array.data[j + 1], array.data[j + 2], array.data[j + 3]>>
             c == CounterOf(j, Len(array.data))
         IN  FillFlat(array, j + 3,
                 [acc EXCEPT !.positions = Push2(@, p),
                             !.counters  = @ \o <<c, c>>])

Fill(array) ==
    LET acc == [thrown |-> FALSE, positions |-> <<>>, counters |-> <<>>]
    IN  IF isVector3Array(array) THEN FillVector3(array, 0, acc)
        ELSE FillFlat(array, 0, acc)

\* ------------------------------------------------------ attribute storage
AttributeNames ==
    {"position", "previous", "next", "side", "width", "uv", "index", "counters"}

\* NeedsNewStorage that asks for new typed arrays at every call.
NeedsNewStorageAlways(pos) == TRUE

\* NeedsNewStorage that keeps the typed arrays once there are some.
NeedsNewStorageNever(pos) == attributes = Null

\* The test of line 199: there are no attributes yet, or the position
\* attribute does not hold as many scalars as #positions.
NeedsNewStorage(pos) ==
    attributes = Null \/ (Len(attributes[1].position) \div 3) * 3 # Len(pos)

\* The identity of the typed arrays allocated at line 200: they are other
\* objects than the ones they replace.
NewStorage == IF attributes = Null THEN 0 ELSE 1 - attributes[1].store

\* The attributes #process leaves behind: new typed arrays when there are
\* none or the vertex count differs, and the old ones overwritten otherwise
\* (all of them but counters).
AssignAttributes(pos, cnt, a) ==
    IF NeedsNewStorage(pos)
    THEN <<[position    |-> Float32Array(pos),
            previous    |-> Float32Array(a.previous),
            next        |-> Float32Array(a.next),
            side        |-> Float32Array(a.side),
            width       |-> a.width,
            uv          |-> a.uvs,
            index       |-> Uint16Array(a.indices_array),
            counters    |-> cnt,
            store       |-> NewStorage,
            needsUpdate |-> {}]>>
    ELSE <<[attributes[1] EXCEPT
            !.position    = Float32Array(pos),
            !.previous    = Float32Array(a.previous),
            !.next        = Float32Array(a.next),
            !.side        = Float32Array(a.side),
            !.width       = a.width,
            !.uv          = a.uvs,
            !.index       = Uint16Array(a.indices_array),
            !.needsUpdate = @ \cup (AttributeNames \ {"counters"})]>>

\* --------------------------------------------------------- bounding volumes
VertexCount(position) == Len(position) \div 3
Vertex(position, v) == <<position[3 * v - 2], position[3 * v - 1], position[3 * v]>>

Least(a, b) == IF a <= b THEN a ELSE b
Greatest(a, b) == IF a >= b THEN a ELSE b

\* The box around the vertices v, v + 1, ... of position, widened from box.
RECURSIVE ExpandBox(_, _, _)
ExpandBox(position, v, box) ==
    IF v > VertexCount(position) THEN box
    ELSE LET q == Vertex(position, v)
         IN  ExpandBox(position, v + 1,
                 [min |-> [k \in 1..3 |-> Least(box.min[k], q[k])],
                  max |-> [k \in 1..3 |-> Greatest(box.max[k], q[k])]])

AllFinite(position) == \A i \in 1..Len(position) : IsFinite(position[i])

\* What stands for the bounding box and the bounding sphere of positions that
\* are not all finite: three computes them without throwing, and what it
\* computes is left open here.
NonFiniteBox == [min |-> <<>>, max |-> <<>>]
NonFiniteSphere == [center2 |-> <<>>, radiusSq4 |-> -1]

computeBoundingBox(position) ==
    IF ~AllFinite(position) THEN <<NonFiniteBox>>
    ELSE LET q == Vertex(position, 1)
         IN  <<ExpandBox(position, 2, [min |-> q, max |-> q])>>

DistSq4(center2, q) ==
      (2 * q[1] - center2[1]) * (2 * q[1] - center2[1])
    + (2 * q[2] - center2[2]) * (2 * q[2] - center2[2])
    + (2 * q[3] - center2[3]) * (2 * q[3] - center2[3])

RECURSIVE MaxDistSq4(_, _, _, _)
MaxDistSq4(position, center2, v, m) ==
    IF v > VertexCount(position) THEN m
    ELSE MaxDistSq4(position, center2, v + 1,
                    Greatest(m, DistSq4(center2, Vertex(position, v))))

\* The sphere around the centre of the bounding box that holds every vertex:
\* twice its centre and four times its squared radius, to stay in integers.
computeBoundingSphere(position) ==
    IF ~AllFinite(position) THEN <<NonFiniteSphere>>
    ELSE LET box     == computeBoundingBox(position)[1]
             center2 == [k \in 1..3 |-> box.min[k] + box.max[k]]
         IN  <<[center2 |-> center2, radiusSq4 |-> MaxDistSq4(position, center2, 1, 0)]>>

\* --------------------------------------------------------------- memcpy
\* The copy loop of memcpy from index i on; with aliased, src and dst are the
\* same array and every read sees the writes made so far. A 'missing src
\* value' throw ends the loop with dst as it is at the throw.
RECURSIVE MemcpyLoop(_, _, _, _, _, _, _)
MemcpyLoop(src, srcBegin, dst, dstOffset, srcEnd, aliased, i) ==
    IF ~(i + srcBegin < srcEnd) THEN [thrown |-> FALSE, dst |-> dst]
    ELSE LET srcValue == JsAt(IF aliased THEN dst ELSE src, i + srcBegin)
         IN  IF srcValue = <<>> THEN [thrown |-> TRUE, dst |-> dst]
             ELSE MemcpyLoop(src, srcBegin,
                             [dst EXCEPT ![i + dstOffset + 1] = srcValue[1]],
                             dstOffset, srcEnd, aliased, i + 1)

\* memcpy that copies nothing.
memcpyNothing(src, srcBegin, dst, dstOffset, srcLength, aliased) ==
    [thrown |-> dstOffset + srcLength > Len(dst), dst |-> dst]

\* memcpy that reads src from its start, whatever srcBegin is.
memcpyFromStart(src, srcBegin, dst, dstOffset, srcLength, aliased) ==
    IF dstOffset + srcLength > Len(dst) THEN [thrown |-> TRUE, dst |-> dst]
    ELSE MemcpyLoop(src, 0, dst, dstOffset, srcLength, aliased, 0)

memcpy(src, srcBegin, dst, dstOffset, srcLength, aliased) ==
    IF dstOffset + srcLength > Len(dst) THEN [thrown |-> TRUE, dst |-> dst]
    ELSE MemcpyLoop(src, srcBegin, dst, dstOffset, srcBegin + srcLength, aliased, 0)

\* WriteLast that stores the point on the second rail alone.
WriteLastOneRail(a, position) ==
    LET l == Len(a)
    IN  [i \in 1..l |-> IF i > l - 3 THEN Fround(position[i - (l - 3)]) ELSE a[i]]

\* WriteLast that stores nothing.
WriteLastNothing(a, position) == a

\* The six stores a[l - 6 .. l - 1] = x, y, z, x, y, z into a Float32Array.
WriteLast(a, position) ==
    LET l == Len(a)
    IN  [i \in 1..l |-> IF i > l - 6 THEN Fround(position[((i - (l - 6) - 1) % 3) + 1])
                        ELSE a[i]]

\* ------------------------------------------------------------------ calls
NoInput == [kind |-> "none", data |-> <<>>]

Init ==
    /\ points = [kind |-> "flat", data |-> <<>>]
    /\ widthCallback = NoCallback
    /\ positions = <<>>
    /\ previous = <<>>
    /\ next = <<>>
    /\ side = <<>>
    /\ width = <<>>
    /\ indices_array = <<>>
    /\ uvs = <<>>
    /\ counters = <<>>
    /\ attributes = Null
    /\ boundingBox = Null
    /\ boundingSphere = Null
    /\ advances = 0
    /\ fed = <<>>
    /\ op = [name |-> "new", points |-> NoInput, wcb |-> NoCallback, position |-> NoPoint]
    /\ err = NoError
    /\ callLog = <<>>
    /\ raycaster = <<>>
    /\ intersects = <<>>
    /\ longLine = <<>>

\* ReturnEmpty that has stored the array before it returns.
ReturnEmptyStored(pts) ==
    /\ points' = pts
    /\ err' = NoError
    /\ callLog' = <<>>
    /\ UNCHANGED <<widthCallback, arrays, attributes, boundingBox, boundingSphere,
                   advances, fed>>

\* setPoints returning at line 70, on the empty array pts.
ReturnEmpty(pts) ==
    /\ err' = NoError
    /\ callLog' = <<>>
    /\ UNCHANGED <<points, widthCallback, arrays, attributes, boundingBox,
                   boundingSphere, advances, fed>>

\* StoredCallback that stores what it is given, null too.
StoredCallbackAlways(wcb) == wcb

\* widthCallback after line 76.
StoredCallback(wcb) == IF wcb # NoCallback THEN wcb ELSE widthCallback

\* setPoints(pts, wcb)
setPoints(pts, wcb) ==
    /\ op' = [name |-> "setPoints", points |-> pts, position |-> NoPoint,
              wcb |-> IF pts.kind = "other" \/ Len(pts.data) = 0 THEN NoCallback ELSE wcb]
    /\ raycaster' = <<>>
    /\ intersects' = <<>>
    /\ UNCHANGED longLine
    /\ IF pts.kind = "other"
       THEN /\ err' = "invalid points"
            /\ callLog' = <<>>
            /\ UNCHANGED <<points, widthCallback, arrays, attributes, boundingBox,
                           boundingSphere, advances, fed>>
       ELSE IF Len(pts.data) = 0
       THEN ReturnEmpty(pts)
       ELSE \E wc \in {StoredCallback(wcb)} :
            \E f \in {Fill(pts)} :
            \E a \in {ProcessArrays(f.positions, wc)} :
                /\ points' = pts
                /\ widthCallback' = wc
                /\ positions' = f.positions
                /\ counters' = f.counters
                /\ IF f.thrown
                   THEN /\ err' = "point missing"
                        /\ callLog' = <<>>
                        /\ UNCHANGED <<previous, next, side, width, indices_array, uvs,
                                       attributes, boundingBox, boundingSphere, advances, fed>>
                   ELSE /\ previous' = a.previous
                        /\ next' = a.next
                        /\ side' = a.side
                        /\ width' = a.width
                        /\ indices_array' = a.indices_array
                        /\ uvs' = a.uvs
                        /\ callLog' = a.log
                        /\ IF a.thrown
                           THEN /\ err' = "point missing"
                                /\ UNCHANGED <<attributes, boundingBox, boundingSphere,
                                               advances, fed>>
                           ELSE /\ err' = NoError
                                /\ attributes' = AssignAttributes(f.positions, f.counters, a)
                                /\ boundingSphere' =
                                       computeBoundingSphere(attributes'[1].position)
                                /\ boundingBox' = computeBoundingBox(attributes'[1].position)
                                /\ advances' = 0
                                /\ fed' = PointsOf(pts)

\* NotInitialized that returns instead of throwing.
NotInitializedSilent ==
    /\ err' = NoError
    /\ UNCHANGED <<attributes, boundingSphere, advances, fed>>

\* advance throwing at line 246.
NotInitialized ==
    /\ err' = "Call setPoints first."
    /\ UNCHANGED <<attributes, boundingSphere, advances, fed>>

\* SphereAfterAdvance that computes the sphere of the new positions.
SphereRecomputed(position) == computeBoundingSphere(position)

\* The bounding sphere after advance has written the array position: advance
\* has no call of computeBoundingSphere, the sphere is the one it found.
SphereAfterAdvance(position) == boundingSphere

\* AdvanceMarks that marks every attribute.
AdvanceMarksAll == AttributeNames

\* The attributes advance marks needsUpdate (lines 275-277).
AdvanceMarks == {"position", "previous", "next"}

\* advance(position)
advance(position) ==
    /\ op' = [name |-> "advance", points |-> NoInput, wcb |-> NoCallback,
              position |-> position]
    /\ callLog' = <<>>
    /\ raycaster' = <<>>
    /\ intersects' = <<>>
    /\ UNCHANGED longLine
    /\ UNCHANGED <<points, widthCallback, arrays, boundingBox>>
    /\ IF attributes = Null
       THEN NotInitialized
       ELSE \E at \in {attributes[1]} :
            \E l  \in {Len(at.position)} :
            \E c1 \in {memcpy(at.position, 0, at.previous, 0, l, FALSE)} :
            \E c2 \in {memcpy(at.position, itemSize, at.position, 0, l - itemSize, TRUE)} :
            \E p2 \in {WriteLast(c2.dst, position)} :
            \E c3 \in {memcpy(p2, itemSize, at.next, 0, l - itemSize, FALSE)} :
            \E n3 \in {WriteLast(c3.dst, position)} :
                /\ advances < MaxAdvances
                /\ advances' = advances + 1
                /\ fed' = Append(fed, position)
                /\ boundingSphere' = SphereAfterAdvance(p2)
                /\ IF c1.thrown
                   THEN /\ err' = "missing src value"
                        /\ attributes' = <<[at EXCEPT !.previous = c1.dst]>>
                   ELSE IF c2.thrown
                   THEN /\ err' = "missing src value"
                        /\ attributes' = <<[at EXCEPT !.previous = c1.dst,
                                                      !.position = c2.dst]>>
                   ELSE IF c3.thrown
                   THEN /\ err' = "missing src value"
                        /\ attributes' = <<[at EXCEPT !.previous = c1.dst,
                                                      !.position = p2,
                                                      !.next = c3.dst]>>
                   ELSE /\ err' = NoError
                        /\ attributes' =
                               <<[at EXCEPT !.previous = c1.dst,
                                            !.position = p2,
                                            !.next = n3,
                                            !.needsUpdate = @ \cup AdvanceMarks]>>

\* ---------------------------------------------------------------- picking
\* new Sphere(), which computeBoundingSphere leaves as it is on a geometry
\* without positions: its centre is the origin and its radius -1, of square 1.
EmptySphere == [center2 |-> Origin, radiusSq4 |-> 4]

\* Ray.intersectSphere, for a ray that looks down the z axis from above the
\* sphere: it meets the sphere when its distance from the centre, which is
\* the distance in the xy-plane, is at most the radius.
intersectSphere(origin, sphere) ==
      (2 * origin[1] - sphere.center2[1]) * (2 * origin[1] - sphere.center2[1])
    + (2 * origin[2] - sphere.center2[2]) * (2 * origin[2] - sphere.center2[2])
    <= sphere.radiusSq4

\* Where on the segment vStart .. vEnd (0 at vStart, 1 at vEnd) the point
\* closest to the ray lies: the point closest to the ray in the xy-plane, and
\* on a segment parallel to the ray the end Ray.distanceSqToSegment takes.
ClosestOnSegment(origin, vStart, vEnd) ==
    LET v  == <<vEnd[1] - vStart[1], vEnd[2] - vStart[2]>>
        w  == <<origin[1] - vStart[1], origin[2] - vStart[2]>>
        vv == v[1] * v[1] + v[2] * v[2]
        wv == w[1] * v[1] + w[2] * v[2]
    IN  IF vv = 0 THEN (IF vEnd[3] >= vStart[3] THEN <<0, 1>> ELSE <<1, 1>>)
        ELSE IF wv <= 0 THEN <<0, 1>>
        ELSE IF wv >= vv THEN <<1, 1>>
        ELSE Rat(wv, vv)

\* Ray.distanceSqToSegment(vStart, vEnd, interRay, interSegment): the square
\* of the distance between ray and segment, the closest point of the segment
\* and the height of the closest point of the ray, which is at the same
\* height as it.
distanceSqToSegment(origin, vStart, vEnd) ==
    LET t  == ClosestOnSegment(origin, vStart, vEnd)
        \* the closest point of the segment, times t[2]
        c  == [k \in 1..3 |-> vStart[k] * t[2] + t[1] * (vEnd[k] - vStart[k])]
        dx == c[1] - origin[1] * t[2]
        dy == c[2] - origin[2] * t[2]
    IN  [distSq       |-> Rat(dx * dx + dy * dy, t[2] * t[2]),
         interSegment |-> [k \in 1..3 |-> Rat(c[k], t[2])],
         interRay     |-> Rat(c[3], t[2])]

\* origin.distanceTo(interRay), interRay being the point of the ray at the
\* height given.
distanceTo(origin, interRay) == Rat(origin[3] * interRay[2] - interRay[1], interRay[2])

\* raycaster.params.Line.threshold after line 354.
Threshold(line) == IF line = <<>> THEN 1 ELSE line[1]

\* Precision without the halving of the line width.
PrecisionFullWidth(line, lineWidth, w) ==
    Rat(Threshold(line) * w[2] + lineWidth * w[1], w[2])

\* The pick radius of line 355, for a width w that is a number.
Precision(line, lineWidth, w) ==
    Rat(2 * Threshold(line) * w[2] + lineWidth * w[1], 2 * w[2])

\* AfterHit that goes on with the next pair.
AfterHitContinue(i, l) == i

\* The loop counter after an intersection is pushed (line 379).
AfterHit(i, l) == l

\* WidthOfPair that reads the width array at the index of the pair.
WidthOfPairAtIndex(at, i) ==
    IF JsAt(at.width, i) # <<>> THEN at.width[i + 1] ELSE <<1, 1>>

\* The width of line 351 for the index pair i: widths[Math.floor(i / 3)], and
\* 1 when the array has no such element.
WidthOfPair(at, i) ==
    IF JsAt(at.width, i \div 3) # <<>> THEN at.width[(i \div 3) + 1] ELSE <<1, 1>>

\* The loop of lines 343-380 from pair i on: the intersections it pushes.
RECURSIVE ScanPairs(_, _, _, _)
ScanPairs(rc, at, step, i) ==
    LET l == Len(at.index) - 1
    IN  IF ~(i < l) THEN <<>>
        ELSE LET a           == at.index[i + 1]
                 b           == at.index[i + 2]
                 vStart      == Vertex(at.position, a + 1)
                 vEnd        == Vertex(at.position, b + 1)
                 w           == WidthOfPair(at, i)
                 precision   == IF w[2] = 0 THEN w ELSE Precision(rc.line, rc.lineWidth, w)
                 precisionSq == <<precision[1] * precision[1], precision[2] * precision[2]>>
                 closest     == distanceSqToSegment(rc.origin, vStart, vEnd)
                 distance    == distanceTo(rc.origin, closest.interRay)
             IN  IF Greater(closest.distSq, precisionSq)
                 THEN ScanPairs(rc, at, step, i + step)
                 ELSE IF Greater(<<rc.near, 1>>, distance) \/ Greater(distance, <<rc.far, 1>>)
                 THEN ScanPairs(rc, at, step, i + step)
                 ELSE <<[distance |-> distance,
                         point    |-> closest.interSegment,
                         index    |-> i]>>
                      \o ScanPairs(rc, at, step, AfterHit(i, l) + step)

\* MeshLineRaycast(mesh, raycaster, intersects) on the mesh of this geometry,
\* whose matrixWorld is the identity: the ray from origin down the z axis,
\* range = <<raycaster.near, raycaster.far>>, line = raycaster.params.Line,
\* lineWidth = mesh.material.lineWidth, segments = mesh instanceof LineSegments.
MeshLineRaycast(origin, range, line, lineWidth, segments) ==
    /\ op' = [name |-> "raycast", points |-> NoInput, wcb |-> NoCallback,
              position |-> NoPoint]
    /\ err' = NoError
    /\ callLog' = <<>>
    /\ UNCHANGED <<points, widthCallback, arrays, attributes, boundingBox, advances,
                   fed, longLine>>
    /\ boundingSphere' = IF boundingSphere = Null THEN <<EmptySphere>> ELSE boundingSphere
    /\ \E rc \in {[origin |-> origin, near |-> range[1], far |-> range[2], line |-> line,
                    lineWidth |-> lineWidth, segments |-> segments]} :
       \E scans \in {/\ intersectSphere(origin, boundingSphere'[1])
                     /\ attributes # Null} :
          /\ intersects' = IF scans
                           THEN ScanPairs(rc, attributes[1], IF segments THEN 2 ELSE 1, 0)
                           ELSE <<>>
          /\ raycaster' = <<[rc EXCEPT !.line = IF scans /\ Len(attributes[1].index) > 1
                                                THEN <<Threshold(line)>> ELSE line]>>

\* ------------------------------------------------- lines of many points
\* The point counts within LongSpan of 32768, the largest one whose vertex
\* numbers 0 .. 2N - 1 all fit the 16 bits of the index attribute.
LongCounts == ((65536 \div 2) - LongSpan)..((65536 \div 2) + LongSpan)

\* What #process does with segment j of a line of pointCount points: the six
\* indices it pushes onto #indices_array (lines 176-178) and the ones the
\* Uint16Array of the index attribute holds of them (lines 207 and 223).
\* Neither the push nor the conversion throws.
IndexSegment(pointCount, j) ==
    /\ HasSegment(j, pointCount)
    /\ longLine' = <<[pointCount    |-> pointCount,
                      j             |-> j,
                      indices_array |-> QuadIndices(j * 2),
                      index         |-> Uint16Array(QuadIndices(j * 2)),
                      err           |-> NoError]>>
    /\ UNCHANGED <<points, widthCallback, arrays, attributes, boundingBox, boundingSphere,
                   advances, fed, op, err, callLog, pick>>

\* The calls a client makes: setPoints with an input of I and a width callback
\* of W (or none), advance with a point of P.
Calls(I, W, P) ==
    \/ \E pts \in I, wcb \in W \cup {NoCallback} : setPoints(pts, wcb)
    \/ \E position \in P : advance(position)

\* Every input, one width callback, one point to advance by.
Next == Calls(Inputs, {"taper"}, {Q(MaxPoints + 1)})
Spec == Init /\ [][Next]_vars

\* The inputs setPoints accepts among the arrays of Vector3, and the empty
\* array; both width callbacks; two points to advance by.
PlainInputs ==
    {[kind |-> "flat", data |-> <<>>]}
    \cup UNION {{[kind |-> "vec", data |-> s] : s \in Polylines(n)} : n \in 2..MaxPoints}
NextPlain == Calls(PlainInputs, WidthFns, AdvancePoints)
SpecPlain == Init /\ [][NextPlain]_vars

\* Picking: open polylines and a closed one, with the tapering width or the
\* default one, advanced and picked with every ray.
PickInputs ==
    {[kind |-> "vec", data |-> Open(n)] : n \in 2..MaxPoints}
    \cup {[kind |-> "vec", data |-> Closed(MaxPoints)]}
NextPick ==
    \/ Calls(PickInputs, {"taper"}, {Q(MaxPoints + 1)})
    \/ \E origin \in RayOrigins, range \in Ranges, line \in LineParams,
          lineWidth \in LineWidths, segments \in BOOLEAN :
           MeshLineRaycast(origin, range, line, lineWidth, segments)
SpecPick == Init /\ [][NextPick]_vars

\* Polylines with a coordinate that is not finite, next to well-formed ones
\* and ones with a hole.
NextNonFinite ==
    Calls(NonFiniteInputs \cup PickInputs
              \cup {[kind |-> "vec", data |-> <<Q(1), Missing>>],
                    [kind |-> "flat", data |-> SubSeq(Flatten(Open(2)), 1, 5)]},
          {"taper"}, {Q(MaxPoints + 1)})
SpecNonFinite == Init /\ [][NextNonFinite]_vars

\* The last LongSpan segments of the lines of LongCounts points.
NextLong ==
    \E pointCount \in LongCounts, k \in 1..LongSpan :
        IndexSegment(pointCount, pointCount - 1 - k)
SpecLong == Init /\ [][NextLong]_vars

\* ================================================================ claims
\* The points of an input array: how many, and the one at index j (0-based).
PointCountOf(input) ==
    IF input.kind = "vec" THEN Len(input.data) ELSE Len(input.data) \div 3
PointOf(input, j) ==
    IF input.kind = "vec" THEN input.data[j + 1]
    ELSE <<input.data[3 * j + 1], input.data[3 * j + 2], input.data[3 * j + 3]>>

\* The last call was a setPoints on a non-empty array that returned normally.
Accepted ==
    /\ op.name = "setPoints"
    /\ op.points.kind # "other"
    /\ Len(op.points.data) > 0
    /\ err = NoError
\* The last call was an advance that returned normally.
Advanced == op.name = "advance" /\ err = NoError

\* Both rails of point j (0-based) of a position-like array hold the point pt.
BothRails(a, j, pt) ==
    /\ <<a[6 * j + 1], a[6 * j + 2], a[6 * j + 3]>> = pt
    /\ <<a[6 * j + 4], a[6 * j + 5], a[6 * j + 6]>> = pt

\* C1: after setPoints accepts a sequence of N >= 1 points, position, previous
\* and next hold 6N scalars each, side, width and counters 2N, uv 4N, and the
\* index list holds 6(N-1) entries.
C1_BufferSizes ==
    Accepted =>
        LET N  == PointCountOf(op.points)
            at == attributes[1]
        IN  /\ N >= 1
            /\ attributes # Null
            /\ Len(at.position) = 6 * N
            /\ Len(at.previous) = 6 * N
            /\ Len(at.next) = 6 * N
            /\ Len(at.side) = 2 * N
            /\ Len(at.width) = 2 * N
            /\ Len(at.counters) = 2 * N
            /\ Len(at.uv) = 4 * N
            /\ Len(at.index) = 6 * (N - 1)
\* setPoints has overwritten, in place, the arrays of a buffer of MaxPoints points.
C1_Witness ==
    /\ Accepted
    /\ PointCountOf(op.points) = MaxPoints
    /\ "index" \in attributes[1].needsUpdate

\* C2: after setPoints on N points, the index list holds for every segment j
\* (0 <= j < N-1), at offsets 6j..6j+5, the values 2j, 2j+1, 2j+2, 2j+2, 2j+1,
\* 2j+3, and every index value is less than 2N.
C2_IndexList ==
    Accepted =>
        LET N   == PointCountOf(op.points)
            idx == attributes[1].index
        IN  /\ \A j \in 0..(N - 2) :
                   SubSeq(idx, 6 * j + 1, 6 * j + 6)
                       = <<2 * j, 2 * j + 1, 2 * j + 2, 2 * j + 2, 2 * j + 1, 2 * j + 3>>
            /\ \A i \in 1..Len(idx) : idx[i] < 2 * N
\* The spec's example: three points give [0,1,2, 2,1,3, 2,3,4, 4,3,5].
C2_Witness ==
    /\ Accepted
    /\ PointCountOf(op.points) = 3
    /\ attributes[1].index = <<0, 1, 2, 2, 1, 3, 2, 3, 4, 4, 3, 5>>

\* C3: after setPoints on p[0..N-1], previous of an interior point j is p[j-1]
\* and its next is p[j+1]; previous of point 0 is p[N-2] when p[0] = p[N-1]
\* and p[0] otherwise; next of point N-1 is p[1] when p[N-1] = p[0] and p[N-1]
\* otherwise; and when N >= 2, previous of point N-1 is p[N-2] and next of
\* point 0 is p[1].
C3_Adjacency ==
    Accepted =>
        LET N    == PointCountOf(op.points)
            p(j) == PointOf(op.points, j)
            at   == attributes[1]
        IN  /\ \A j \in 1..(N - 2) :
                   /\ BothRails(at.previous, j, p(j - 1))
                   /\ BothRails(at.next, j, p(j + 1))
            /\ BothRails(at.previous, 0, IF p(0) = p(N - 1) THEN p(N - 2) ELSE p(0))
            /\ BothRails(at.next, N - 1, IF p(N - 1) = p(0) THEN p(1) ELSE p(N - 1))
            /\ N >= 2 => /\ BothRails(at.previous, N - 1, p(N - 2))
                         /\ BothRails(at.next, 0, p(1))
\* A closed loop of three points: previous of point 0 is point 1, not point 0.
C3_Witness ==
    /\ Accepted
    /\ PointCountOf(op.points) = 3
    /\ PointOf(op.points, 0) = PointOf(op.points, 2)
    /\ BothRails(attributes[1].previous, 0, PointOf(op.points, 1))
    /\ PointOf(op.points, 1) # PointOf(op.points, 0)

\* What a call can change, the bookkeeping of the calls themselves aside.
buffer == <<points, widthCallback, arrays, attributes, boundingBox, boundingSphere>>

\* C4: advance(P) on an initialized buffer of N points returns normally, moves
\* the position of every point j >= 1 into slot j-1, writes P into both rails
\* of slot N-1, and leaves previous equal, scalar for scalar, to the position
\* array as it was before the call.
C4_AdvancePosition ==
    [][(op'.name = "advance" /\ attributes # Null) =>
          LET before == attributes[1].position
              after  == attributes'[1]
              l      == Len(before)
          IN  /\ err' = NoError
              /\ Len(after.position) = l
              /\ \A i \in 1..(l - 6) : after.position[i] = before[i + 6]
              /\ BothRails(after.position, (l \div 6) - 1, op'.position)
              /\ after.previous = before]_vars
\* A second advance in a row: previous is no longer what setPoints left.
C4_Witness ==
    /\ Advanced
    /\ advances = 2
    /\ BothRails(attributes[1].position, (Len(attributes[1].position) \div 6) - 1,
                 op.position)

\* C5: after advance(P) on a buffer of N points, next holds in slot j
\* (0 <= j < N-1) the post-shift position of slot j+1, and P on both rails in
\* slot N-1.
C5_AdvanceNext ==
    [][(op'.name = "advance" /\ attributes # Null) =>
          LET after == attributes'[1]
              l     == Len(after.position)
          IN  /\ Len(after.next) = l
              /\ \A i \in 1..(l - 6) : after.next[i] = after.position[i + 6]
              /\ BothRails(after.next, (l \div 6) - 1, op'.position)]_vars
\* An advance of a buffer of MaxPoints points by a point that is not its first.
C5_Witness ==
    /\ Advanced
    /\ Len(attributes[1].next) = 6 * MaxPoints
    /\ ~BothRails(attributes[1].position, 0, op.position)
    /\ BothRails(attributes[1].next, MaxPoints - 1, op.position)

\* C6: the attributes exist only once a setPoints call has succeeded, and
\* advance on a buffer without them fails with 'Call setPoints first.' and
\* changes no state.
C6_AdvanceNotInitialized ==
    [][/\ (attributes = Null /\ attributes' # Null) => Accepted'
       /\ (op'.name = "advance" /\ attributes = Null) =>
              /\ err' = "Call setPoints first."
              /\ UNCHANGED buffer]_vars
\* advance has failed on a buffer whose only setPoints calls were rejected.
C6_Witness ==
    /\ op.name = "advance"
    /\ err = "Call setPoints first."
    /\ attributes = Null
    /\ Len(points.data) > 0

\* C7: setPoints with an empty sequence returns without error and leaves the
\* derived arrays, the vertex count, the stored points and the width function
\* unchanged.
C7_EmptyIsNoOp ==
    [][(/\ op'.name = "setPoints"
        /\ op'.points.kind # "other"
        /\ Len(op'.points.data) = 0) =>
          /\ err' = NoError
          /\ UNCHANGED buffer]_vars
\* setPoints([]) on a buffer that holds points and has been advanced.
C7_Witness ==
    /\ op.name = "setPoints"
    /\ op.points.kind # "other"
    /\ Len(op.points.data) = 0
    /\ err = NoError
    /\ attributes # Null
    /\ advances > 0
    /\ Len(points.data) > 0

\* Every width the attributes hold is 1.
AllWidthsOne == \A i \in 1..Len(attributes[1].width) : attributes[1].width[i] = <<1, 1>>

\* C8, as claimed: when setPoints is called with no width function, every
\* emitted width value equals 1.
C8_Original == (Accepted /\ op.wcb = NoCallback) => AllWidthsOne
\* C8, amended: when setPoints is called with no width function and none is
\* stored from an earlier call (widthCallback is null), every emitted width
\* value equals 1.
C8_DefaultWidth ==
    (Accepted /\ op.wcb = NoCallback /\ widthCallback = NoCallback) => AllWidthsOne
\* setPoints without a width function on a buffer that never had one.
C8_Witness ==
    /\ Accepted
    /\ op.wcb = NoCallback
    /\ widthCallback = NoCallback
    /\ Len(attributes[1].width) = 2 * MaxPoints

\* An array of n >= 1 points, none of them and none of their coordinates missing.
WellFormed(input) ==
    \/ /\ input.kind = "vec"
       /\ Len(input.data) >= 1
       /\ \A k \in 1..Len(input.data) : input.data[k] # Missing
    \/ /\ input.kind = "flat"
       /\ Len(input.data) >= 3
       /\ Len(input.data) % 3 = 0
\* The normalized position of point j among n points.
NormalizedPosition(j, n) == IF n = 1 THEN <<0, 1>> ELSE Div(j, n - 1)

\* C9: with a width function in effect, a setPoints call on N points evaluates
\* it exactly once per point, in point order, with argument j/(N-1) for point
\* j (0 when N = 1), and stores the value it returns as the width of both
\* rails of point j.
C9_WidthCalls ==
    (op.name = "setPoints" /\ WellFormed(op.points) /\ widthCallback # NoCallback) =>
        LET N == PointCountOf(op.points)
        IN  /\ callLog = [k \in 1..N |-> NormalizedPosition(k - 1, N)]
            /\ attributes # Null
            /\ attributes[1].width =
                   [i \in 1..(2 * N) |->
                       Apply(widthCallback, NormalizedPosition((i - 1) \div 2, N))]

\* C10: the side array is +1, -1 repeated once per point and holds nothing
\* else, in every state the calls reach.
C10_Sides ==
    attributes # Null =>
        LET N == Len(attributes[1].position) \div 6
        IN  attributes[1].side = [i \in 1..(2 * N) |-> IF i % 2 = 1 THEN 1 ELSE -1]
\* The side array after an overwrite in place followed by an advance.
C10_Witness ==
    /\ Advanced
    /\ "side" \in attributes[1].needsUpdate
    /\ Len(attributes[1].side) = 2 * MaxPoints

\* C11: setPoints on a single point succeeds and yields 2 vertices, an empty
\* index list, and previous and next equal to that point on both rails.
C11_SinglePoint ==
    (op.name = "setPoints" /\ WellFormed(op.points) /\ PointCountOf(op.points) = 1) =>
        /\ err = NoError
        /\ attributes # Null
        /\ VertexCount(attributes[1].position) = 2
        /\ attributes[1].index = <<>>
        /\ BothRails(attributes[1].previous, 0, PointOf(op.points, 0))
        /\ BothRails(attributes[1].next, 0, PointOf(op.points, 0))

\* The last call was a setPoints that threw.
Rejected == op.name = "setPoints" /\ err # NoError

\* C12: a setPoints call that is rejected with an error leaves the attribute
\* arrays, the stored points and the stored width function as they were
\* before the call.
C12_RejectedIsNoOp ==
    [][Rejected' => UNCHANGED <<attributes, points, widthCallback>>]_vars

\* The attribute arrays hold the tessellation of the points of input: its
\* points on both rails of position, and counters j/N.
HoldsPoints(at, input) ==
    LET N == PointCountOf(input)
    IN  /\ Len(at.position) = 6 * N
        /\ \A j \in 0..(N - 1) : BothRails(at.position, j, PointOf(input, j))
        /\ at.counters = [i \in 1..(2 * N) |-> Div((i - 1) \div 2, N)]

\* C13: a successful setPoints whose point count equals that of the current
\* buffer keeps the attribute storage and overwrites its contents in place;
\* one with another point count, or the first one, replaces the storage with
\* newly allocated arrays, which carry no needsUpdate mark.
C13_StorageReuse ==
    [][Accepted' =>
          /\ HoldsPoints(attributes'[1], op'.points)
          /\ IF /\ attributes # Null
                /\ Len(attributes[1].position) \div 6 = PointCountOf(op'.points)
             THEN attributes'[1].store = attributes[1].store
             ELSE /\ attributes # Null => attributes'[1].store # attributes[1].store
                  /\ attributes'[1].needsUpdate = {}]_vars
\* An overwrite in place of arrays that are not the first ones allocated.
C13_Witness ==
    /\ Accepted
    /\ attributes[1].store = 1
    /\ "index" \in attributes[1].needsUpdate
    /\ PointCountOf(op.points) = MaxPoints

\* The attributes that hold points.
PointAttributes == {"position", "previous", "next"}

\* C14: advance changes only the position, previous and next arrays and their
\* needsUpdate marks: the stored points, the width function, the vertex count,
\* and the contents and marks of side, width, uv, counters and index are as
\* they were before the call.
C14_AdvanceFrame ==
    [][op'.name = "advance" =>
          /\ UNCHANGED <<points, widthCallback>>
          /\ attributes = Null => attributes' = Null
          /\ attributes # Null =>
                 LET before == attributes[1]
                     after  == attributes'[1]
                 IN  /\ VertexCount(after.position) = VertexCount(before.position)
                     /\ after.side = before.side
                     /\ after.width = before.width
                     /\ after.uv = before.uv
                     /\ after.counters = before.counters
                     /\ after.index = before.index
                     /\ after.store = before.store
                     /\ after.needsUpdate \ PointAttributes
                            = before.needsUpdate \ PointAttributes
                     /\ PointAttributes \subseteq after.needsUpdate]_vars
\* An advance of newly allocated arrays: position, previous and next are the
\* only attributes marked.
C14_Witness ==
    /\ Advanced
    /\ attributes[1].needsUpdate = PointAttributes
    /\ widthCallback # NoCallback
    /\ attributes[1].position # Float32Array(positions)

\* The last call was a MeshLineRaycast on a geometry that has its attributes.
Picked == op.name = "raycast" /\ attributes # Null
\* The index pairs the loop of the last MeshLineRaycast call visits when it
\* does not stop early.
ScannedPairs ==
    {i \in 0..(Len(attributes[1].index) - 2) :
        i % (IF raycaster[1].segments THEN 2 ELSE 1) = 0}
\* The closest approach of the ray to the segment of pair i.
Approach(i) ==
    distanceSqToSegment(raycaster[1].origin,
                        Vertex(attributes[1].position, attributes[1].index[i + 1] + 1),
                        Vertex(attributes[1].position, attributes[1].index[i + 2] + 1))
\* widthArray[floor(i/3)], or 1 when there is no such entry.
PickWidth(i) ==
    IF i \div 3 < Len(attributes[1].width) THEN attributes[1].width[(i \div 3) + 1]
    ELSE <<1, 1>>
\* The square of threshold + (lineWidth * width) / 2 for pair i.
PickRadiusSq(i) ==
    LET w == PickWidth(i)
        r == Rat(2 * Threshold(raycaster[1].line) * w[2] + raycaster[1].lineWidth * w[1],
                 2 * w[2])
    IN  <<r[1] * r[1], r[2] * r[2]>>
WithinRadius(i) == ~Greater(Approach(i).distSq, PickRadiusSq(i))
\* The world distance of the closest approach to pair i.
WorldDistance(i) == distanceTo(raycaster[1].origin, Approach(i).interRay)
InRange(i) ==
    /\ ~Greater(<<raycaster[1].near, 1>>, WorldDistance(i))
    /\ ~Greater(WorldDistance(i), <<raycaster[1].far, 1>>)
Qualifying == {i \in ScannedPairs : WithinRadius(i) /\ InRange(i)}
\* The ray of the last call meets the bounding sphere of the geometry.
MeetsSphere == intersectSphere(raycaster[1].origin, boundingSphere[1])
\* The one intersection recorded is that of the first qualifying pair.
FirstQualifyingRecorded ==
    /\ Len(intersects) = 1
    /\ intersects[1].index \in Qualifying
    /\ \A j \in Qualifying : intersects[1].index <= j
    /\ intersects[1].distance = WorldDistance(intersects[1].index)

\* C15, as claimed: one MeshLineRaycast call records the first index pair, in
\* increasing i, whose squared distance from the ray is within the squared
\* pick radius and whose world distance lies in [near, far], and nothing when
\* no pair qualifies.
C15_Original ==
    Picked => IF Qualifying # {} THEN FirstQualifyingRecorded ELSE intersects = <<>>
\* C15, amended: a call whose ray meets the bounding sphere of the geometry
\* records the first qualifying pair and no other, and nothing when no pair
\* qualifies; a call whose ray misses the sphere records nothing.
C15_FirstHit ==
    Picked => IF MeetsSphere /\ Qualifying # {} THEN FirstQualifyingRecorded
              ELSE intersects = <<>>
\* A pair is recorded although a later pair qualifies and is nearer to the
\* origin of the ray.
C15_Witness ==
    /\ Picked
    /\ Len(intersects) = 1
    /\ \E j \in Qualifying :
           /\ j > intersects[1].index
           /\ Greater(intersects[1].distance, WorldDistance(j))

\* C16: every pair recorded is a scanned pair whose squared distance from the
\* ray does not exceed the square of threshold + (lineWidth * width) / 2, with
\* width = widthArray[floor(i/3)] or 1; and when every scanned pair exceeds
\* its radius, nothing is recorded.
C16_PickRadius ==
    Picked =>
        /\ \A k \in 1..Len(intersects) :
               /\ intersects[k].index \in ScannedPairs
               /\ WithinRadius(intersects[k].index)
        /\ (\A i \in ScannedPairs : ~WithinRadius(i)) => intersects = <<>>
\* A pair is recorded whose width is neither 1 nor 0, after a pair in range
\* that was beyond its pick radius.
C16_Witness ==
    /\ Picked
    /\ Len(intersects) = 1
    /\ PickWidth(intersects[1].index) \notin {<<1, 1>>, <<0, 1>>}
    /\ \E i \in ScannedPairs :
           i < intersects[1].index /\ InRange(i) /\ ~WithinRadius(i)

\* C17: when the point count makes a vertex number exceed what 16 bits hold
\* (2N - 1 > 65535), setPoints surfaces an error instead of storing indices
\* truncated modulo 2^16.
C17_IndexOverflow ==
    (longLine # <<>> /\ 2 * longLine[1].pointCount - 1 > 65535) =>
        longLine[1].err # NoError

\* The coordinates of an input array, and whether one of them is missing.
CoordinatesOf(input) ==
    IF input.kind = "vec"
    THEN UNION {{input.data[k][c] : c \in 1..Len(input.data[k])} : k \in 1..Len(input.data)}
    ELSE {input.data[k] : k \in 1..Len(input.data)}
LacksCoordinate(input) ==
    \/ input.kind = "vec" /\ \E k \in 1..Len(input.data) : input.data[k] = Missing
    \/ input.kind = "flat" /\ Len(input.data) % 3 # 0

\* C18: setPoints fails whenever a coordinate of a supplied point is missing
\* or is not finite, so no attribute array that holds points ever holds a
\* coordinate that is not finite.
C18_InvalidInput ==
    /\ (/\ op.name = "setPoints"
        /\ op.points.kind # "other"
        /\ \/ LacksCoordinate(op.points)
           \/ \E x \in CoordinatesOf(op.points) : ~IsFinite(x))
       => err # NoError
    /\ attributes # Null =>
           /\ AllFinite(attributes[1].position)
           /\ AllFinite(attributes[1].previous)
           /\ AllFinite(attributes[1].next)

\* C19, as claimed: after setPoints on N points the counter of point j is
\* j/(N-1), as uv's u is: 0 at the first point and 1 at the last.
C19_Original ==
    Accepted =>
        LET N == PointCountOf(op.points)
        IN  attributes[1].counters =
                [i \in 1..(2 * N) |-> NormalizedPosition((i - 1) \div 2, N)]
\* C19, amended: the counter of point j of a buffer of N points is j/N, 0 at
\* the first point and (N-1)/N at the last, the same on both rails, whatever
\* the width function is and whatever calls came before.
C19_Counters ==
    attributes # Null =>
        LET N == Len(attributes[1].position) \div 6
        IN  attributes[1].counters = [i \in 1..(2 * N) |-> Div((i - 1) \div 2, N)]
\* setPoints with a width function has overwritten in place a buffer of
\* MaxPoints points, whose counters it does not copy: the last counter is
\* (MaxPoints - 1) / MaxPoints, and the last u is 1.
C19_Witness ==
    /\ Accepted
    /\ widthCallback # NoCallback
    /\ "uv" \in attributes[1].needsUpdate
    /\ PointCountOf(op.points) = MaxPoints
    /\ attributes[1].counters[2 * MaxPoints] = Div(MaxPoints - 1, MaxPoints)
    /\ attributes[1].uv[4 * MaxPoints - 1] = <<1, 1>>

\* C20: a successful setPoints stores the sequence it was given as the one
\* the points getter returns, replaces the stored width function when it was
\* given one and keeps it otherwise, and computes the widths with the stored
\* width function.
C20_StoredArguments ==
    [][Accepted' =>
          /\ points' = op'.points
          /\ widthCallback' = IF op'.wcb # NoCallback THEN op'.wcb ELSE widthCallback
          /\ LET N == PointCountOf(op'.points)
             IN  attributes'[1].width =
                     [i \in 1..(2 * N) |->
                         WidthOf(widthCallback', Div((i - 1) \div 2, N - 1))]]_vars
\* setPoints without a width function on a buffer that has one stored: the
\* stored one gives the widths.
C20_Witness ==
    /\ Accepted
    /\ op.wcb = NoCallback
    /\ widthCallback = "const2"
    /\ points = op.points
    /\ \A i \in 1..Len(attributes[1].width) : attributes[1].width[i] = <<2, 1>>

\* C21: after a successful setPoints on p[0..N-1] and k >= 0 advance calls
\* with q1..qk since, the position array holds on both rails the last N points
\* of p[0], ..., p[N-1], q1, ..., qk in order, and the vertex count is 2N.
C21_Fifo ==
    attributes # Null =>
        LET N == Len(fed) - advances
            position == attributes[1].position
        IN  /\ N >= 1
            /\ VertexCount(position) = 2 * N
            /\ \A j \in 0..(N - 1) : BothRails(position, j, fed[advances + j + 1])
\* Two advance calls with different points on a buffer of MaxPoints points:
\* the last point of setPoints has moved to the front.
C21_Witness ==
    /\ Advanced
    /\ advances = 2
    /\ Len(fed) = MaxPoints + 2
    /\ fed[Len(fed)] # fed[Len(fed) - 1]
    /\ BothRails(attributes[1].position, 0, fed[MaxPoints])
    /\ BothRails(attributes[1].position, MaxPoints - 1, fed[Len(fed)])

\* The last n of the points fed to the buffer, as an array of Vector3.
LastFed(f, n) == [kind |-> "vec", data |-> SubSeq(f, Len(f) - n + 1, Len(f))]
\* The arrays setPoints builds from the array input with the width callback wc.
Rebuilt(input, wc) ==
    LET f == Fill(input)
        a == ProcessArrays(f.positions, wc)
    IN  [position |-> Float32Array(f.positions),
         previous |-> Float32Array(a.previous),
         next     |-> Float32Array(a.next)]
\* An advance(P) on a buffer whose point 1 is not P: position and next are what
\* setPoints on the points now in the buffer would build, and so is previous
\* but for point 0, which holds the point that was dropped.
AdvanceMatchesRebuild ==
    LET N      == Len(attributes[1].position) \div 6
        full   == Rebuilt(LastFed(fed', N), widthCallback)
        after  == attributes'[1]
        before == attributes[1].position
    IN  /\ after.position = full.position
        /\ after.next = full.next
        /\ \A i \in 7..(6 * N) : after.previous[i] = full.previous[i]
        /\ BothRails(after.previous, 0, <<before[1], before[2], before[3]>>)

\* C22: after advance(P) on a buffer of N >= 2 points p[0..N-1] with P
\* different from p[1], the position and next arrays equal those of a full
\* setPoints on p[1], ..., p[N-1], P, and the previous array equals it in every
\* slot but point 0, which holds the dropped point p[0].
C22_AdvanceAsRebuild ==
    [][(/\ op'.name = "advance"
        /\ attributes # Null
        /\ ~BothRails(attributes[1].position, 1, op'.position))
       => AdvanceMatchesRebuild]_vars
\* The first advance of an open polyline of MaxPoints points: previous holds
\* the dropped point p[0] in point 0, where a rebuild would hold p[1].
C22_Witness ==
    /\ Advanced
    /\ advances = 1
    /\ Len(fed) = MaxPoints + 1
    /\ fed[1] # fed[MaxPoints]
    /\ fed[2] # fed[Len(fed)]
    /\ BothRails(attributes[1].previous, 0, fed[1])
    /\ Rebuilt(LastFed(fed, MaxPoints), widthCallback).previous[1] = fed[2][1]
    /\ fed[1] # fed[2]

\* The position array setPoints built from the points it was last given.
PositionsOfSetPoints ==
    Float32Array(Fill([kind |-> "vec",
                       data |-> SubSeq(fed, 1, Len(fed) - advances)]).positions)

\* C23: advance does not recompute the bounding sphere or the bounding box:
\* after any number of advance calls they are the ones of the positions of
\* the last successful setPoints, and MeshLineRaycast tests its ray against
\* that sphere.
C23_StaleBounds ==
    attributes # Null =>
        /\ boundingSphere = computeBoundingSphere(PositionsOfSetPoints)
        /\ boundingBox = computeBoundingBox(PositionsOfSetPoints)
        /\ (Picked /\ ~MeetsSphere) => intersects = <<>>
\* A pick after an advance records nothing: the ray misses the sphere of the
\* positions of setPoints, though it meets the sphere of the positions now
\* in the buffer and a pair qualifies.
C23_Witness ==
    /\ Picked
    /\ advances > 0
    /\ ~MeetsSphere
    /\ intersectSphere(raycaster[1].origin,
                       computeBoundingSphere(attributes[1].position)[1])
    /\ Qualifying # {}
    /\ intersects = <<>>

\* The contents of the attributes of a buffer that had none before
\* setPoints(input), with the width callback wc in effect.
FreshContents(input, wc) ==
    LET f == Fill(input)
        a == ProcessArrays(f.positions, wc)
    IN  [position |-> Float32Array(f.positions),
         previous |-> Float32Array(a.previous),
         next     |-> Float32Array(a.next),
         side     |-> Float32Array(a.side),
         width    |-> a.width,
         uv       |-> a.uvs,
         index    |-> Uint16Array(a.indices_array),
         counters |-> f.counters]
ContentNames == {"position", "previous", "next", "side", "width", "uv", "index", "counters"}

\* C24: after a successful setPoints the attributes hold what the same call
\* leaves in a buffer without history, whatever calls of setPoints and of
\* advance came before it: they depend on the points and on the width
\* callback in effect only.
C24_HistoryIndependent ==
    Accepted =>
        \A name \in ContentNames :
            attributes[1][name] = FreshContents(op.points, widthCallback)[name]
\* setPoints has overwritten the typed arrays of an earlier call of as many
\* points (counters is the one array it has not written) with a closed
\* polyline and the tapering width.
C24_Witness ==
    /\ Accepted
    /\ "position" \in attributes[1].needsUpdate
    /\ "counters" \notin attributes[1].needsUpdate
    /\ PointCountOf(op.points) = MaxPoints
    /\ PointOf(op.points, MaxPoints - 1) = Q(1)
    /\ widthCallback = "taper"
    /\ attributes[1].counters = FreshContents(op.points, widthCallback).counters

\* The same points in the other form: the flat array of the coordinates of an
\* array of Vector3, and the array of Vector3 of a flat array.
OtherForm(input) ==
    IF input.kind = "vec" THEN [kind |-> "flat", data |-> Flatten(input.data)]
    ELSE [kind |-> "vec", data |-> PointsOf(input)]

\* C25: setPoints given N points as an array of Vector3 and setPoints given
\* the same points as a flat array of 3N scalars leave the same attributes,
\* and the counter of point j is j/N for both.
C25_VecFlatSame ==
    (Accepted /\ WellFormed(op.points)) =>
        LET N == PointCountOf(op.points)
            other == FreshContents(OtherForm(op.points), widthCallback)
        IN  /\ \A name \in ContentNames : attributes[1][name] = other[name]
            /\ attributes[1].counters = [i \in 1..(2 * N) |-> Div((i - 1) \div 2, N)]
\* setPoints has accepted a flat array of MaxPoints points, and the counter
\* of its last point is that of the array of Vector3 of the same points.
C25_Witness ==
    /\ Accepted
    /\ op.points.kind = "flat"
    /\ PointCountOf(op.points) = MaxPoints
    /\ op.points.data = Flatten(PointsOf(op.points))
    /\ attributes[1].counters[2 * MaxPoints] = Div(MaxPoints - 1, MaxPoints)
    /\ attributes[1].counters =
           Fill([kind |-> "vec", data |-> PointsOf(op.points)]).counters

\* C26: with the index and width arrays of setPoints on N >= 2 points, every
\* index pair i the picker scans (0 <= i < 6(N-1) - 1) has floor(i/3) < 2N,
\* so the width it reads is an element of the width array and never the
\* default 1, and it is the width of point floor(i/6), on either rail.
C26_PickWidthOfPoint ==
    Picked =>
        LET at == attributes[1]
            N  == Len(at.position) \div 6
        IN  /\ N >= 2
            /\ Len(at.index) = 6 * (N - 1)
            /\ Len(at.width) = 2 * N
            /\ \A i \in ScannedPairs :
                   /\ i < 6 * (N - 1) - 1
                   /\ i \div 3 < 2 * N
                   /\ i \div 6 < N - 1
                   /\ WidthOfPair(at, i) = at.width[2 * (i \div 6) + 1]
                   /\ WidthOfPair(at, i) = at.width[2 * (i \div 6) + 2]
                   /\ WidthOfPair(at, i) =
                          WidthOf(widthCallback, NormalizedPosition(i \div 6, N))
\* The picker has recorded a pair of the second segment of a tapering line,
\* whose width is neither the default 1 nor the width of another point.
C26_Witness ==
    /\ Picked
    /\ widthCallback = "taper"
    /\ Len(attributes[1].position) \div 6 = MaxPoints
    /\ intersects # <<>>
    /\ intersects[1].index >= 6
    /\ PickWidth(intersects[1].index) = attributes[1].width[3]
    /\ \A j \in {0, 2} : attributes[1].width[2 * j + 1] # attributes[1].width[3]
====
